---- MODULE Spec2Model ----
(***************************************************************************)
(* The tutor proxy endpoint of lingua-proxy: two Next.js route handlers,   *)
(*   variant A  src/app/api/tutor/route.ts   (Gemini generateContent)      *)
(*   variant B  src/unnamed/part_000         (OpenAI responses)            *)
(* Each POST checks a shared secret, awaits the request body, validates    *)
(* the text, checks the provider credential, makes one outbound call,      *)
(* awaits the provider's body and reshapes the answer.  A handler is       *)
(* suspended at each await; the environment (process.env) belongs to the   *)
(* host and may differ from one read to the next.                          *)
(*                                                                         *)
(* JavaScript strings are sequences of one-character strings, so that      *)
(* trim, toLowerCase, includes, join and encodeURIComponent are computed,  *)
(* not assumed.  The characters are those of ASCII and the white space     *)
(* code points beyond it; one that cannot stand in a string here is        *)
(* written "U+XXXX".                                                       *)
(* undefined / null / an absent JSON field is None; a present value v is   *)
(* Some(v).  JSON objects are records holding exactly the fields present.  *)
(***************************************************************************)
EXTENDS Integers, Sequences, FiniteSets, TLC

----------------------------------------------------------------------------
(* Optional values: undefined, null, an absent header or field.            *)

None == [some |-> FALSE]
Some(v) == [some |-> TRUE, val |-> v]

\* x ?? d
Coalesce(x, d) == IF x.some THEN x.val ELSE d

\* x || "" for a string-or-undefined x: the empty string is falsy too
OrEmpty(x) == IF x.some /\ x.val # <<>> THEN x.val ELSE <<>>

\* x || d for a string-or-undefined x
OrElse(x, d) == IF x.some /\ x.val # <<>> THEN x.val ELSE d

----------------------------------------------------------------------------
(* String primitives of the JavaScript runtime the handlers call.          *)

\* what String.prototype.trim removes: the WhiteSpace and LineTerminator
\* code points of ECMAScript (TAB, VT, FF, SP, NBSP, ZWNBSP, the Unicode
\* space separators, LF, CR, LS, PS)
WhiteSpace ==
  {"\t", "U+000B", "\f", " ", "U+00A0", "U+FEFF",
   "U+1680", "U+2000", "U+2001", "U+2002", "U+2003", "U+2004", "U+2005",
   "U+2006", "U+2007", "U+2008", "U+2009", "U+200A", "U+202F", "U+205F",
   "U+3000",
   "\n", "\r", "U+2028", "U+2029"}

\* what the Headers class removes from both ends of a value: HTTP white
\* space (TAB, LF, CR, SP) and nothing else
HttpWhiteSpace == {"\t", "\n", "\r", " "}

RECURSIVE FirstNotIn(_, _, _)
FirstNotIn(s, ws, i) ==
  IF i > Len(s) THEN i
  ELSE IF s[i] \notin ws THEN i ELSE FirstNotIn(s, ws, i + 1)

RECURSIVE LastNotIn(_, _, _)
LastNotIn(s, ws, i) ==
  IF i < 1 THEN i
  ELSE IF s[i] \notin ws THEN i ELSE LastNotIn(s, ws, i - 1)

\* s without the characters of ws at its two ends
Strip(s, ws) ==
  LET a == FirstNotIn(s, ws, 1)
      b == LastNotIn(s, ws, Len(s))
  IN IF a > b THEN <<>> ELSE SubSeq(s, a, b)

\* s.trim()
Trim(s) == Strip(s, WhiteSpace)

UpperCase ==
  << "A", "B", "C", "D", "E", "F", "G", "H", "I", "J", "K", "L", "M", "N",
     "O", "P", "Q", "R", "S", "T", "U", "V", "W", "X", "Y", "Z" >>

LowerCase ==
  << "a", "b", "c", "d", "e", "f", "g", "h", "i", "j", "k", "l", "m", "n",
     "o", "p", "q", "r", "s", "t", "u", "v", "w", "x", "y", "z" >>

\* one character of s.toLowerCase(): of the characters above only the
\* letters A to Z change
LowerChar(c) ==
  IF \E i \in 1..Len(UpperCase) : UpperCase[i] = c
  THEN LowerCase[CHOOSE i \in 1..Len(UpperCase) : UpperCase[i] = c]
  ELSE c

\* s.toLowerCase()
ToLowerCase(s) == [i \in 1..Len(s) |-> LowerChar(s[i])]

\* s.includes(sub)
Includes(s, sub) ==
  \E i \in 0..(Len(s) - Len(sub)) : SubSeq(s, i + 1, i + Len(sub)) = sub

\* parts.join("\n")
RECURSIVE JoinNl(_)
JoinNl(parts) ==
  IF parts = <<>> THEN <<>>
  ELSE IF Len(parts) = 1 THEN parts[1]
  ELSE parts[1] \o <<"\n">> \o JoinNl(Tail(parts))

\* the characters encodeURIComponent leaves alone
Unreserved ==
  {UpperCase[i] : i \in 1..Len(UpperCase)} \cup
  {LowerCase[i] : i \in 1..Len(LowerCase)} \cup
  {"0", "1", "2", "3", "4", "5", "6", "7", "8", "9"} \cup
  {"-", "_", ".", "!", "~", "*", "'", "(", ")"}

\* the ASCII characters in the order of their code points, U+0000 first
Ascii ==
  << "U+0000", "U+0001", "U+0002", "U+0003", "U+0004", "U+0005", "U+0006",
    "U+0007", "U+0008", "\t", "\n", "U+000B", "\f", "\r", "U+000E",
    "U+000F", "U+0010", "U+0011", "U+0012", "U+0013", "U+0014", "U+0015",
    "U+0016", "U+0017", "U+0018", "U+0019", "U+001A", "U+001B", "U+001C",
    "U+001D", "U+001E", "U+001F", " ", "!", "\"", "#", "$", "%", "&", "'",
    "(", ")", "*", "+", ",", "-", ".", "/", "0", "1", "2", "3", "4", "5",
    "6", "7", "8", "9", ":", ";", "<", "=", ">", "?", "@", "A", "B", "C",
    "D", "E", "F", "G", "H", "I", "J", "K", "L", "M", "N", "O", "P", "Q",
    "R", "S", "T", "U", "V", "W", "X", "Y", "Z", "[", "\\", "]", "^", "_",
    "U+0060", "a", "b", "c", "d", "e", "f", "g", "h", "i", "j", "k", "l",
    "m", "n", "o", "p", "q", "r", "s", "t", "u", "v", "w", "x", "y", "z",
    "{", "|", "}", "~", "U+007F" >>

\* the white space code points beyond ASCII, each with its code point
BeyondAscii ==
  << <<"U+00A0", 160>>, <<"U+FEFF", 65279>>, <<"U+1680", 5760>>,
    <<"U+2000", 8192>>, <<"U+2001", 8193>>, <<"U+2002", 8194>>,
    <<"U+2003", 8195>>, <<"U+2004", 8196>>, <<"U+2005", 8197>>,
    <<"U+2006", 8198>>, <<"U+2007", 8199>>, <<"U+2008", 8200>>,
    <<"U+2009", 8201>>, <<"U+200A", 8202>>, <<"U+202F", 8239>>,
    <<"U+205F", 8287>>, <<"U+3000", 12288>>, <<"U+2028", 8232>>,
    <<"U+2029", 8233>> >>

\* c.codePointAt(0)
CodePoint(c) ==
  IF \E i \in 1..Len(Ascii) : Ascii[i] = c
  THEN (CHOOSE i \in 1..Len(Ascii) : Ascii[i] = c) - 1
  ELSE BeyondAscii[CHOOSE i \in 1..Len(BeyondAscii) : BeyondAscii[i][1] = c][2]

\* the bytes of the UTF-8 encoding of a code point of the basic plane
Utf8(cp) ==
  IF cp < 128 THEN << cp >>
  ELSE IF cp < 2048 THEN << 192 + (cp \div 64), 128 + (cp % 64) >>
  ELSE << 224 + (cp \div 4096), 128 + ((cp \div 64) % 64), 128 + (cp % 64) >>

HexDigits ==
  << "0", "1", "2", "3", "4", "5", "6", "7", "8", "9",
     "A", "B", "C", "D", "E", "F" >>

\* "%XX" for each byte
RECURSIVE PercentBytes(_)
PercentBytes(bytes) ==
  IF bytes = <<>> THEN <<>>
  ELSE LET b == Head(bytes)
       IN << "%", HexDigits[(b \div 16) + 1], HexDigits[(b % 16) + 1] >>
          \o PercentBytes(Tail(bytes))

\* one character of encodeURIComponent(s): an unreserved character as it
\* is, any other as the escaped bytes of its UTF-8 encoding
EncodeChar(c) ==
  IF c \in Unreserved THEN <<c>>
  ELSE PercentBytes(Utf8(CodePoint(c)))

\* encodeURIComponent(s)
RECURSIVE EncodeURIComponent(_)
EncodeURIComponent(s) ==
  IF s = <<>> THEN <<>>
  ELSE EncodeChar(Head(s)) \o EncodeURIComponent(Tail(s))

\* n copies of the character c
Rep(c, n) == [i \in 1..n |-> c]

----------------------------------------------------------------------------
(* Program constants.                                                      *)

\* text.length > 1500
MaxTextLen == 1500

LangIt == <<"i", "t">>
LangEs == <<"e", "s">>
Ital == <<"i", "t", "a", "l">>

\* process.env.GEMINI_MODEL || "gemini-2.0-flash"
DefaultGeminiModel ==
  <<"g", "e", "m", "i", "n", "i", "-", "2", ".", "0", "-", "f", "l", "a", "s", "h">>

\* process.env.OPENAI_MODEL || "gpt-4.1"
DefaultOpenAIModel == <<"g", "p", "t", "-", "4", ".", "1">>

----------------------------------------------------------------------------
(* Completions of a piece of handler code: it returns a response, throws,  *)
(* or suspends on an await: of the request body, of the outbound fetch, of *)
(* the provider's body.                                                    *)

Return(resp) == [kind |-> "return", resp |-> resp]
Throw(msg) == [kind |-> "throw", message |-> msg]
AwaitBody == [kind |-> "parse"]
Await(call) == [kind |-> "await", call |-> call]
AwaitJson == [kind |-> "read"]

\* the statuses a Response may carry at all
StatusInRange(status) == status \in 200..599

\* the statuses of a response that must not have a body
NullBodyStatus(status) == status \in {101, 103, 204, 205, 304}

\* new Response(body, {status}) with a non-null body: a RangeError for a
\* status outside 200..599, a TypeError for a null-body status
ResponseInit(status, resp) ==
  IF ~StatusInRange(status)
  THEN Throw("init[\"status\"] must be in the range of 200 to 599, inclusive.")
  ELSE IF NullBodyStatus(status)
  THEN Throw("Response constructor: Invalid response status code "
             \o ToString(status))
  ELSE Return(resp)

\* variant A: json(data, status), with cache-control: no-store
json_A(data, status) ==
  ResponseInit(status, [status |-> status, noStore |-> TRUE, body |-> data])

\* variant B: json(data, status), without a cache-control header
json_B(data, status) ==
  ResponseInit(status, [status |-> status, noStore |-> FALSE, body |-> data])

----------------------------------------------------------------------------
(* Variant A: the pure helpers of route.ts.                                *)

normalizeLang(input) ==
  LET v == Trim(ToLowerCase(input))
  IN IF v = LangIt \/ Includes(v, Ital) THEN LangIt ELSE LangEs

\* the lines of the template, once trimmed (its accented letters are
\* written unaccented: the model checker keeps ASCII strings only)
buildInstructions_A(lang) ==
  LET target == IF lang = LangIt THEN "Italiano"
                ELSE "Espanhol (rioplatense neutro)"
  IN << "Voce e um tutor de idiomas.",
        "Idioma alvo: " \o target \o ".",
        "Idioma da interface/explicacoes: Portugues (Brasil).",
        "",
        "Regras:",
        "- Responda curto e natural no idioma alvo.",
        "- Depois inclua uma secao \"Correcoes\" corrigindo a frase do usuario (se necessario).",
        "- Depois inclua uma secao \"Dica\" com 1 dica objetiva.",
        "- Se o usuario escrever em PT-BR, peca para ele tentar no idioma alvo." >>

\* one history item m: (m?.text ?? "").toString().trim()
ItemText(m) == Trim(Coalesce(m.text, <<>>))

\* mutant of ItemRole: only "assistant" becomes "model"
ItemRole_AssistantOnly(m) ==
  IF Coalesce(m.role, "user") = "assistant" THEN "model" ELSE "user"

\* (m?.role ?? "user").toString(), then "assistant" and "model" become "model"
ItemRole(m) ==
  LET roleRaw == Coalesce(m.role, "user")
  IN IF roleRaw = "assistant" \/ roleRaw = "model" THEN "model" ELSE "user"

RECURSIVE HistoryContents(_)
HistoryContents(items) ==
  IF items = <<>> THEN <<>>
  ELSE LET m == Head(items)
           t == ItemText(m)
       IN IF t = <<>> THEN HistoryContents(Tail(items))
          ELSE << [role |-> ItemRole(m), parts |-> << [text |-> t] >>] >>
               \o HistoryContents(Tail(items))

\* history: None (absent), Some([array |-> FALSE]) (a JSON value that is not
\* an array) or Some([array |-> TRUE, items |-> <<...>>])
buildContents(history, userText) ==
  LET contents == IF history.some /\ history.val.array
                  THEN HistoryContents(history.val.items)
                  ELSE <<>>
  IN Append(contents, [role |-> "user", parts |-> << [text |-> userText] >>])

\* the strings of parts for which p?.text is a non-empty string
RECURSIVE PartTexts(_)
PartTexts(parts) ==
  IF parts = <<>> THEN <<>>
  ELSE LET p == Head(parts)
       IN IF p.text.some /\ p.text.val # <<>>
          THEN <<p.text.val>> \o PartTexts(Tail(parts))
          ELSE PartTexts(Tail(parts))

\* data.parts stands for data?.candidates?.[0]?.content?.parts
extractTextFromGemini(data) ==
  IF ~data.parts.some THEN <<>>
  ELSE Trim(JoinNl(PartTexts(data.parts.val)))

\* req.json(), then req.text() + JSON.parse, then null
safeParseJson(req) == IF req.body.json THEN Some(req.body.value) ELSE None

\* body?.f
Field(body, f) == IF body.some THEN body.val[f] ELSE None

\* req.headers.get(name): null when absent; Headers keeps a value with its
\* leading and trailing HTTP white space removed
HeadersGet(req) ==
  IF req.token.some THEN Some(Strip(req.token.val, HttpWhiteSpace)) ELSE None

\* r.ok
Ok(status) == status \in 200..299

\* what r.json().catch(() => ({})) yields for a body that is not JSON or
\* that cannot be read: {}
EmptyGemini == [parts |-> None, responseId |-> None, error |-> None]

\* lines 106-110: the shared-secret check; both sides are trimmed
Unauthorized_A(env, req) ==
  LET appToken == Trim(OrEmpty(env.APP_TOKEN))
      sent == Trim(OrEmpty(HeadersGet(req)))
  IN appToken # <<>> /\ sent # appToken

\* line 115: (body?.text ?? "").toString().trim()
TextOf_A(body) == Trim(Coalesce(Field(body, "text"), <<>>))

\* mutant of TextTooLong_A: the limit is off by one
TextTooLong_A_OffByOne(text) == Len(text) > MaxTextLen + 1

\* line 121: text.length > 1500
TextTooLong_A(text) == Len(text) > MaxTextLen

\* line 123: (process.env.GEMINI_API_KEY || "").trim()
ApiKey_A(env) == Trim(OrEmpty(env.GEMINI_API_KEY))

\* line 126: (process.env.GEMINI_MODEL || "gemini-2.0-flash").trim()
Model_A(env) == Trim(OrElse(env.GEMINI_MODEL, DefaultGeminiModel))

\* lines 128-130: the three pieces of the template literal
Url_A(model) ==
  << "https://generativelanguage.googleapis.com/v1beta/models/",
     EncodeURIComponent(model),
     ":generateContent" >>

\* lines 128-150: the url, the headers, the payload of the outbound call
GeminiCall(apiKey, model, lang, history, text) ==
  [provider |-> "Gemini",
   url |-> Url_A(model),
   method |-> "POST",
   apiKey |-> apiKey,
   payload |-> [system_instruction |->
                  [parts |-> << [text |-> buildInstructions_A(lang)] >>],
                contents |-> buildContents(history, text),
                generationConfig |-> [temperature |-> "0.6",
                                      maxOutputTokens |-> 280]]]

\* POST of variant A from its start to the await of line 112: env is
\* process.env as it is when line 106 reads it
POST_A_Begin(env, req) ==
  IF Unauthorized_A(env, req)
  THEN json_A([error |-> "Unauthorized"], 401)
  ELSE AwaitBody

\* line 123 is reached: the text passed lines 120 and 121
ReachesKey_A(req) ==
  LET text == TextOf_A(safeParseJson(req))
  IN text # <<>> /\ ~TextTooLong_A(text)

\* line 126 is reached: line 124 did not return
ReachesModel_A(env, req) == ReachesKey_A(req) /\ ApiKey_A(env) # <<>>

\* POST of variant A from the parsed body to the await of fetch (lines
\* 112-150): env is process.env as it is when lines 123 and 126 read it
POST_A_Parsed(env, req) ==
  LET body == safeParseJson(req)
      lang == normalizeLang(Coalesce(Field(body, "lang"), LangEs))
      text == TextOf_A(body)
      history == Field(body, "history")
  IN IF text = <<>> THEN json_A([error |-> "Missing text"], 400)
     ELSE IF TextTooLong_A(text) THEN json_A([error |-> "Text too long"], 400)
     ELSE IF ApiKey_A(env) = <<>>
          THEN json_A([error |-> "Server missing GEMINI_API_KEY"], 500)
     ELSE Await(GeminiCall(ApiKey_A(env), Model_A(env), lang, history, text))

\* mutant of POST_A_Fetched: a rejected fetch is tried again
POST_A_Fetched_Retry(rejected) ==
  IF rejected THEN Await([provider |-> "Gemini", retry |-> TRUE])
  ELSE AwaitJson

\* lines 143-152: the fetch has settled; a rejected fetch throws, a resolved
\* one leaves the handler awaiting r.json()
POST_A_Fetched(rejected) ==
  IF rejected THEN Throw("fetch failed") ELSE AwaitJson

\* lines 168-170: the provider's responseId when truthy, else a generated id
ResponseId_A(data, generated) ==
  IF data.responseId.some /\ data.responseId.val # <<>>
  THEN data.responseId.val
  ELSE generated

\* lines 165-184: the reply to a 2xx answer of the provider
Reply_A(data, generated) ==
  LET tutorText == extractTextFromGemini(data)
      response_id == ResponseId_A(data, generated)
  IN IF tutorText = <<>>
     THEN json_A([error |-> "Empty response",
                  response_id |-> Some(response_id),
                  details |-> data], 502)
     ELSE json_A([text |-> tutorText, response_id |-> Some(response_id)], 200)

\* lines 154-163: the reply to a non-2xx answer of the provider
UpstreamError_A(status, data) ==
  json_A([error |-> "Gemini error", status |-> status, details |-> data], status)

\* POST of variant A from the settled r.json() on (lines 152-184): parsed is
\* the provider's JSON body, None when r.json() rejected
POST_A_Resume(status, parsed, generated) ==
  LET data == Coalesce(parsed, EmptyGemini)
  IN IF ~Ok(status) THEN UpstreamError_A(status, data)
     ELSE Reply_A(data, generated)

\* mutant of Catch_A: the exception is thrown on
Catch_A_Rethrow(c) == c

\* lines 185-187: the catch clause
Catch_A(c) ==
  IF c.kind = "throw"
  THEN json_A([error |-> "Server error", details |-> c.message], 500)
  ELSE c

----------------------------------------------------------------------------
(* Variant B: src/unnamed/part_000.                                        *)

\* the lines of the template, once trimmed (accented letters unaccented)
buildInstructions_B(lang) ==
  LET target == IF lang = LangIt THEN "Italiano"
                ELSE "Espanhol (rioplatense neutro)"
  IN << "Voce e um tutor de idiomas.",
        "Idioma alvo: " \o target \o ".",
        "Idioma das explicacoes: Portugues (Brasil).",
        "Regras:",
        "- Responda curto e natural no idioma alvo.",
        "- Depois inclua \"Correcoes\" corrigindo a frase do usuario (se necessario).",
        "- Depois inclua \"Dica\" com 1 dica objetiva.",
        "- Se o usuario escrever em PT-BR, peca para ele tentar no idioma alvo." >>

\* the texts of the output_text entries of one item's content
RECURSIVE ContentTexts(_)
ContentTexts(content) ==
  IF content = <<>> THEN <<>>
  ELSE LET c == Head(content)
       IN IF c.type = "output_text" /\ c.text.some
          THEN <<c.text.val>> \o ContentTexts(Tail(content))
          ELSE ContentTexts(Tail(content))

RECURSIVE OutputTexts(_)
OutputTexts(out) ==
  IF out = <<>> THEN <<>>
  ELSE LET item == Head(out)
       IN IF item.type # "message" THEN OutputTexts(Tail(out))
          ELSE ContentTexts(Coalesce(item.content, <<>>))
               \o OutputTexts(Tail(out))

extractOutputText(openaiJson) ==
  Trim(JoinNl(OutputTexts(Coalesce(openaiJson.output, <<>>))))

\* {} for a body that is not JSON or that cannot be read
EmptyOpenAI == [output |-> None, id |-> None, error |-> None]

\* req.json().catch(() => null)
parseBody_B(req) == IF req.body.json THEN Some(req.body.value) ELSE None

\* lines 54-58: the shared-secret check; the configured secret is used as is
Unauthorized_B(env, req) ==
  LET appToken == OrEmpty(env.APP_TOKEN)
      sent == OrEmpty(HeadersGet(req))
  IN appToken # <<>> /\ sent # appToken

\* mutant of TextOf_B: the trim is forgotten
TextOf_B_Untrimmed(body) == Coalesce(Field(body, "text"), <<>>)

\* line 62: (body?.text ?? "").toString().trim()
TextOf_B(body) == Trim(Coalesce(Field(body, "text"), <<>>))

\* line 67: text.length > 1500
TextTooLong_B(text) == Len(text) > MaxTextLen

\* mutant of MissingKey_B: only an unset credential counts as missing
MissingKey_B_UnsetOnly(env) == ~env.OPENAI_API_KEY.some

\* lines 69-70: !process.env.OPENAI_API_KEY
MissingKey_B(env) == OrEmpty(env.OPENAI_API_KEY) = <<>>

\* line 73: process.env.OPENAI_MODEL || "gpt-4.1"
Model_B(env) == OrElse(env.OPENAI_MODEL, DefaultOpenAIModel)

\* lines 72-91: the url, the headers, the payload of the outbound call
OpenAICall(apiKey, model, lang, text, previous_response_id) ==
  LET payload == [model |-> model,
                  instructions |-> buildInstructions_B(lang),
                  input |-> text,
                  max_output_tokens |-> 280,
                  temperature |-> "0.6",
                  store |-> FALSE]
  IN [provider |-> "OpenAI",
      url |-> "https://api.openai.com/v1/responses",
      method |-> "POST",
      apiKey |-> apiKey,
      payload |-> IF previous_response_id.some
                  THEN [f \in DOMAIN payload \cup {"previous_response_id"} |->
                          IF f = "previous_response_id"
                          THEN previous_response_id.val ELSE payload[f]]
                  ELSE payload]

\* POST of variant B from its start to the await of line 60: env is
\* process.env as it is when line 54 reads it
POST_B_Begin(env, req) ==
  IF Unauthorized_B(env, req)
  THEN json_B([error |-> "Unauthorized"], 401)
  ELSE AwaitBody

\* line 69 is reached: the text passed lines 66 and 67
ReachesKey_B(req) ==
  LET text == TextOf_B(parseBody_B(req))
  IN text # <<>> /\ ~TextTooLong_B(text)

\* line 73 is reached: line 70 did not return
ReachesModel_B(env, req) == ReachesKey_B(req) /\ ~MissingKey_B(env)

\* POST of variant B from the parsed body to the await of fetch (lines
\* 60-91): env is process.env as it is when lines 69 and 73 read it
POST_B_Parsed(env, req) ==
  LET body == parseBody_B(req)
      lang == Coalesce(Field(body, "lang"), LangEs)
      text == TextOf_B(body)
      prev == Field(body, "previous_response_id")
      previous_response_id ==
        IF prev.some /\ prev.val # <<>> THEN prev ELSE None
  IN IF text = <<>> THEN json_B([error |-> "Missing text"], 400)
     ELSE IF TextTooLong_B(text) THEN json_B([error |-> "Text too long"], 400)
     ELSE IF MissingKey_B(env)
          THEN json_B([error |-> "Server missing OPENAI_API_KEY"], 500)
     ELSE Await(OpenAICall(env.OPENAI_API_KEY.val, Model_B(env), lang, text,
                           previous_response_id))

\* lines 84-93: the fetch has settled; a rejected fetch throws, a resolved
\* one leaves the handler awaiting r.json()
POST_B_Fetched(rejected) ==
  IF rejected THEN Throw("fetch failed") ELSE AwaitJson

\* lines 98-99: the reply to a 2xx answer of the provider
Reply_B(data) ==
  json_B([text |-> extractOutputText(data), response_id |-> data.id], 200)

\* lines 94-96: the reply to a non-2xx answer of the provider
UpstreamError_B(status, data) ==
  json_B([error |-> "OpenAI error", status |-> status, details |-> data], status)

\* POST of variant B from the settled r.json() on (lines 93-99): parsed is
\* the provider's JSON body, None when r.json() rejected
POST_B_Resume(status, parsed) ==
  LET data == Coalesce(parsed, EmptyOpenAI)
  IN IF ~Ok(status) THEN UpstreamError_B(status, data)
     ELSE Reply_B(data)

\* lines 100-102: the catch clause
Catch_B(c) ==
  IF c.kind = "throw"
  THEN json_B([error |-> "Server error", details |-> c.message], 500)
  ELSE c

----------------------------------------------------------------------------
(* State.  One deployment serves requests one after the other; nothing of  *)
(* a request outlives it.  process.env is the host's: a handler sees of it *)
(* what it reads, when it reads it, so each read is an input of the step   *)
(* that makes it and env records the values the invocation has read.       *)

VARIABLES
  variant,     \* "A" or "B": which route handler is deployed
  env,         \* process.env as read by this invocation, variable by variable
  pc,          \* "idle"; suspended: "parsing" (request body), "awaiting"
               \* (fetch), "reading" (provider's body); "done"
  req,         \* the inbound request being handled
  calls,       \* the outbound provider calls made for this request
  responses,   \* the responses returned for this request
  caught,      \* the exceptions that reached the catch clause
  escaped,     \* TRUE when an exception left the handler
  upstream,    \* how far the outbound fetch has got and with what
  fnArgs,      \* buildContents on its own: the arguments
  fnResult     \* buildContents on its own: the result

vars == <<variant, env, pc, req, calls, responses, caught, escaped,
          upstream, fnArgs, fnResult>>

----------------------------------------------------------------------------
(* Inputs.                                                                 *)

\* how many items a history given to buildContents on its own may hold
MaxHistory == 2

\* an environment variable the invocation has not read, or has read as v
Unread == [read |-> FALSE]
Read(v) == [read |-> TRUE, val |-> v]

NothingRead ==
  [APP_TOKEN |-> Unread, GEMINI_API_KEY |-> Unread, GEMINI_MODEL |-> Unread,
   OPENAI_API_KEY |-> Unread, OPENAI_MODEL |-> Unread]

Secret == <<"s">>

\* APP_TOKEN: unset, empty, blank, a secret, a secret with a trailing space
EnvTokens == {None, Some(<<>>), Some(<<" ">>), Some(Secret),
              Some(Secret \o <<" ">>)}

\* the provider credential: unset, empty, blank, a key
EnvKeys == {None, Some(<<>>), Some(<<" ">>), Some(<<"k">>)}

\* GEMINI_MODEL: unset, blank, a name to be trimmed and percent-encoded
\* (a reserved character, a control character, a two-byte code point)
EnvModels_A ==
  {None, Some(<<" ">>),
   Some(<<" ", "g", "/", "U+000B", "U+00A0", "2", "\t">>)}

\* OPENAI_MODEL: unset, empty, a name with a trailing space
EnvModels_B == {None, Some(<<>>), Some(<<"o", "3", " ">>)}

\* the x-app-token header as sent: absent, the secret, the secret with white
\* space around it, the secret in another case
SentTokens == {None, Some(Secret), Some(<<"\t">> \o Secret \o <<" ">>),
               Some(<<"S">>)}

LongText == Rep("a", MaxTextLen)

\* text: absent, empty, blank, short, short with white space around it,
\* 1500 characters with white space around them, 1501 characters
Texts == {None, Some(<<>>), Some(<<"\t", "U+00A0", "\r">>),
          Some(<<"h", "i">>),
          Some(<<"\t", "h", "i", "\r", "\n">>),
          Some(<<"\f">> \o LongText \o <<"\t">>),
          Some(<<" ">> \o LongText \o <<"a">>)}

Langs == {None, Some(LangIt), Some(<<"I", "T">>),
          Some(<<"\t", "I", "T", "A", "L", "i", "a", "n", "o">>),
          Some(<<"i", "t", "e", "m">>)}

HistoryItems ==
  [role : {None, Some("user"), Some("assistant"), Some("model"), Some("system")},
   text : {None, Some(<<"\t">>), Some(<<"h", "i">>), Some(<<"\t", "y", "o", " ">>)}]

RECURSIVE SeqsUpTo(_, _)
SeqsUpTo(S, n) ==
  IF n = 0 THEN {<<>>}
  ELSE LET shorter == SeqsUpTo(S, n - 1)
       IN shorter \cup {Append(q, x) : q \in shorter, x \in S}

NotArray == Some([array |-> FALSE])
ArrayOf(items) == Some([array |-> TRUE, items |-> items])

\* the histories the handler is driven with
Histories ==
  {None, NotArray,
   ArrayOf(<< [role |-> Some("assistant"), text |-> Some(<<"h", "i">>)],
              [role |-> Some("user"), text |-> Some(<<"\t">>)],
              [role |-> Some("system"), text |-> Some(<<"\t", "y", "o", " ">>)] >>)}

PreviousIds == {None, Some(<<>>), Some(<<"r", "1">>)}

Bodies_A ==
  {[json |-> FALSE]} \cup
  {[json |-> TRUE,
    value |-> [text |-> t, lang |-> l, history |-> h,
               previous_response_id |-> None]] :
     t \in Texts, l \in Langs, h \in Histories}

Bodies_B ==
  {[json |-> FALSE]} \cup
  {[json |-> TRUE,
    value |-> [text |-> t, lang |-> l, history |-> None,
               previous_response_id |-> p]] :
     t \in Texts, l \in Langs, p \in PreviousIds}

Requests_A == [method : {"POST"}, token : SentTokens, body : Bodies_A]
Requests_B == [method : {"POST"}, token : SentTokens, body : Bodies_B]

NoRequest == [method |-> "none", token |-> None, body |-> [json |-> FALSE]]
OptionsRequest == [method |-> "OPTIONS", token |-> None, body |-> [json |-> FALSE]]

\* what the provider may answer
GeminiPart(t) == [text |-> t]
GeminiBodies ==
  {EmptyGemini,
   [parts |-> None, responseId |-> None, error |-> Some("RESOURCE_EXHAUSTED")],
   [parts |-> Some(<< GeminiPart(Some(<<"H", "o", "l", "a">>)),
                      GeminiPart(Some(<<"C", "o", "m", "o", "?">>)) >>),
    responseId |-> Some(<<"g", "1">>), error |-> None],
   [parts |-> Some(<< GeminiPart(Some(<<"H", "o", "l", "a", "\n">>)) >>),
    responseId |-> None, error |-> None],
   [parts |-> Some(<< GeminiPart(None), GeminiPart(Some(<<>>)) >>),
    responseId |-> Some(<<"g", "2">>), error |-> None],
   [parts |-> Some(<< GeminiPart(Some(<<"\t">>)) >>),
    responseId |-> None, error |-> None]}

OutputText(t) == [type |-> "output_text", text |-> t]
OpenAIBodies ==
  {EmptyOpenAI,
   [output |-> None, id |-> None, error |-> Some("rate_limit_exceeded")],
   [output |-> Some(<< [type |-> "reasoning", content |-> None],
                       [type |-> "message",
                        content |-> Some(<< OutputText(Some(<<"H", "o", "l", "a">>)),
                                            OutputText(Some(<<"C", "o", "m", "o", "?">>)) >>)] >>),
    id |-> Some(<<"r", "2">>), error |-> None],
   [output |-> Some(<< [type |-> "message",
                        content |-> Some(<< [type |-> "refusal", text |-> Some(<<"n", "o">>)] >>)] >>),
    id |-> Some(<<"r", "3">>), error |-> None],
   [output |-> Some(<< [type |-> "message",
                        content |-> Some(<< OutputText(Some(<<"\t">>)) >>)] >>),
    id |-> None, error |-> None]}

\* r.status: a 2xx, a null-body status, three errors, one beyond 599
UpstreamStatuses == {200, 304, 400, 429, 503, 600}

\* r.json(): the provider's JSON body, or a rejection (None) when the body
\* is not JSON or its stream fails
ParsedBodies(bodies) == {None} \cup {Some(d) : d \in bodies}

\* crypto.randomUUID() or `r_${Date.now()}`: some non-empty string
GeneratedIds == {<<"u", "1">>, <<"u", "2">>}

\* the outbound fetch: not settled, rejected (network failure), resolved
\* with a status, and its body received
Pending == [phase |-> "pending"]
Rejected == [phase |-> "rejected"]
Resolved(status) == [phase |-> "resolved", status |-> status]
Received(status, parsed) ==
  [phase |-> "received", status |-> status, body |-> parsed]

NoArgs == [history |-> None, userText |-> <<>>]

----------------------------------------------------------------------------
(* The handlers as actions: one per stretch of code between two awaits.    *)

Init ==
  /\ variant \in {"A", "B"}
  /\ env = NothingRead
  /\ pc = "idle"
  /\ req = NoRequest
  /\ calls = <<>>
  /\ responses = <<>>
  /\ caught = <<>>
  /\ escaped = FALSE
  /\ upstream = Pending
  /\ fnArgs = NoArgs
  /\ fnResult = <<>>

\* what becomes of the request once the try block has completed as c0 and
\* the catch clause has turned it into c
Settle(c0, c) ==
  /\ caught' = IF c0.kind = "throw" THEN Append(caught, c0.message) ELSE caught
  /\ pc' = CASE c.kind = "parse" -> "parsing"
             [] c.kind = "await" -> "awaiting"
             [] c.kind = "read" -> "reading"
             [] OTHER -> "done"
  /\ calls' = IF c.kind = "await" THEN Append(calls, c.call) ELSE calls
  /\ responses' = IF c.kind = "return" THEN Append(responses, c.resp) ELSE responses
  /\ escaped' = (escaped \/ c.kind = "throw")

OPTIONS_A ==
  /\ variant = "A" /\ pc = "idle"
  /\ req' = OptionsRequest
  /\ LET c0 == json_A([ok |-> TRUE], 200) IN Settle(c0, c0)
  /\ UNCHANGED <<variant, env, upstream, fnArgs, fnResult>>

\* POST is called: lines 103-112, up to await safeParseJson(req)
POST_A ==
  /\ variant = "A" /\ pc = "idle"
  /\ \E r \in Requests_A, token \in EnvTokens :
       /\ req' = r
       /\ env' = [env EXCEPT !.APP_TOKEN = Read(token)]
       /\ LET c0 == POST_A_Begin([APP_TOKEN |-> token], r)
          IN Settle(c0, Catch_A(c0))
  /\ UNCHANGED <<variant, upstream, fnArgs, fnResult>>

\* safeParseJson has settled: lines 112-150, up to await fetch(...)
BodyParsed_A ==
  /\ variant = "A" /\ pc = "parsing"
  /\ \E key \in EnvKeys, model \in EnvModels_A :
       LET e == [GEMINI_API_KEY |-> key, GEMINI_MODEL |-> model]
           c0 == POST_A_Parsed(e, req)
       IN /\ env' = [env EXCEPT
                       !.GEMINI_API_KEY =
                          IF ReachesKey_A(req) THEN Read(key) ELSE @,
                       !.GEMINI_MODEL =
                          IF ReachesModel_A(e, req) THEN Read(model) ELSE @]
          /\ Settle(c0, Catch_A(c0))
  /\ UNCHANGED <<variant, req, upstream, fnArgs, fnResult>>

\* fetch has settled: lines 143-152, up to await r.json()
FetchSettles_A ==
  /\ variant = "A" /\ pc = "awaiting"
  /\ \E o \in {Rejected} \cup {Resolved(st) : st \in UpstreamStatuses} :
       /\ upstream' = o
       /\ LET c0 == POST_A_Fetched(o.phase = "rejected")
          IN Settle(c0, Catch_A(c0))
  /\ UNCHANGED <<variant, env, req, fnArgs, fnResult>>

\* r.json() has settled: lines 152-188
BodyRead_A ==
  /\ variant = "A" /\ pc = "reading"
  /\ \E parsed \in ParsedBodies(GeminiBodies), g \in GeneratedIds :
       /\ upstream' = Received(upstream.status, parsed)
       /\ LET c0 == POST_A_Resume(upstream.status, parsed, g)
          IN Settle(c0, Catch_A(c0))
  /\ UNCHANGED <<variant, env, req, fnArgs, fnResult>>

OPTIONS_B ==
  /\ variant = "B" /\ pc = "idle"
  /\ req' = OptionsRequest
  /\ LET c0 == json_B([ok |-> TRUE], 200) IN Settle(c0, c0)
  /\ UNCHANGED <<variant, env, upstream, fnArgs, fnResult>>

\* POST is called: lines 52-60, up to await req.json()
POST_B ==
  /\ variant = "B" /\ pc = "idle"
  /\ \E r \in Requests_B, token \in EnvTokens :
       /\ req' = r
       /\ env' = [env EXCEPT !.APP_TOKEN = Read(token)]
       /\ LET c0 == POST_B_Begin([APP_TOKEN |-> token], r)
          IN Settle(c0, Catch_B(c0))
  /\ UNCHANGED <<variant, upstream, fnArgs, fnResult>>

\* req.json() has settled: lines 60-91, up to await fetch(...)
BodyParsed_B ==
  /\ variant = "B" /\ pc = "parsing"
  /\ \E key \in EnvKeys, model \in EnvModels_B :
       LET e == [OPENAI_API_KEY |-> key, OPENAI_MODEL |-> model]
           c0 == POST_B_Parsed(e, req)
       IN /\ env' = [env EXCEPT
                       !.OPENAI_API_KEY =
                          IF ReachesKey_B(req) THEN Read(key) ELSE @,
                       !.OPENAI_MODEL =
                          IF ReachesModel_B(e, req) THEN Read(model) ELSE @]
          /\ Settle(c0, Catch_B(c0))
  /\ UNCHANGED <<variant, req, upstream, fnArgs, fnResult>>

\* fetch has settled: lines 84-93, up to await r.json()
FetchSettles_B ==
  /\ variant = "B" /\ pc = "awaiting"
  /\ \E o \in {Rejected} \cup {Resolved(st) : st \in UpstreamStatuses} :
       /\ upstream' = o
       /\ LET c0 == POST_B_Fetched(o.phase = "rejected")
          IN Settle(c0, Catch_B(c0))
  /\ UNCHANGED <<variant, env, req, fnArgs, fnResult>>

\* r.json() has settled: lines 93-103
BodyRead_B ==
  /\ variant = "B" /\ pc = "reading"
  /\ \E parsed \in ParsedBodies(OpenAIBodies) :
       /\ upstream' = Received(upstream.status, parsed)
       /\ LET c0 == POST_B_Resume(upstream.status, parsed)
          IN Settle(c0, Catch_B(c0))
  /\ UNCHANGED <<variant, env, req, fnArgs, fnResult>>

\* the request is over; the next invocation starts from nothing
NextRequest ==
  /\ pc = "done"
  /\ pc' = "idle"
  /\ env' = NothingRead
  /\ req' = NoRequest
  /\ calls' = <<>>
  /\ responses' = <<>>
  /\ caught' = <<>>
  /\ escaped' = FALSE
  /\ upstream' = Pending
  /\ UNCHANGED <<variant, fnArgs, fnResult>>

Next ==
  \/ OPTIONS_A
  \/ POST_A
  \/ BodyParsed_A
  \/ FetchSettles_A
  \/ BodyRead_A
  \/ OPTIONS_B
  \/ POST_B
  \/ BodyParsed_B
  \/ FetchSettles_B
  \/ BodyRead_B
  \/ NextRequest

Spec == Init /\ [][Next]_vars

----------------------------------------------------------------------------
(* buildContents on its own, over every history of up to MaxHistory items. *)

ContentsHistories ==
  {None, NotArray} \cup {ArrayOf(q) : q \in SeqsUpTo(HistoryItems, MaxHistory)}

ContentsTexts == {<<"h", "i">>, <<"o", "k", "!">>}

InitContents ==
  /\ variant = "A"
  /\ env = NothingRead
  /\ pc = "args"
  /\ req = NoRequest
  /\ calls = <<>>
  /\ responses = <<>>
  /\ caught = <<>>
  /\ escaped = FALSE
  /\ upstream = Pending
  /\ fnArgs \in [history : ContentsHistories, userText : ContentsTexts]
  /\ fnResult = <<>>

ApplyBuildContents ==
  /\ pc = "args"
  /\ pc' = "result"
  /\ fnResult' = buildContents(fnArgs.history, fnArgs.userText)
  /\ UNCHANGED <<variant, env, req, calls, responses, caught, escaped,
                 upstream, fnArgs>>

NextContents == ApplyBuildContents

SpecContents == InitContents /\ [][NextContents]_vars

----------------------------------------------------------------------------
(* Vocabulary of the claims, stated on the request, the environment as it  *)
(* was read, the outbound calls and the response, not on the handlers' own *)
(* definitions.                                                            *)

Done == pc = "done"
IsPost == req.method = "POST"
Suspended == pc \in {"parsing", "awaiting", "reading"}

\* the response is the error `msg` with status `status`
Replied(status, msg) ==
  /\ Len(responses) = 1
  /\ responses[1].status = status
  /\ "error" \in DOMAIN responses[1].body
  /\ responses[1].body.error = msg

\* a field of the request's JSON body; absent when the body is not JSON
ReqField(f) == IF req.body.json THEN req.body.value[f] ELSE None

\* the request's text, absent taken as empty, trimmed
TrimmedText == Trim(Coalesce(ReqField("text"), <<>>))

\* the shared secret the deployment is configured with when the request
\* arrives (every POST reads it first)
AppToken == env.APP_TOKEN.val

\* the configured shared secret, unset taken as empty, trimmed
ConfiguredSecret == Trim(OrEmpty(AppToken))

\* the provider credential of the deployed variant, once the handler has
\* come to read it
Credential == IF variant = "A" THEN env.GEMINI_API_KEY ELSE env.OPENAI_API_KEY
CredentialName == IF variant = "A" THEN "GEMINI_API_KEY" ELSE "OPENAI_API_KEY"
ProviderName == IF variant = "A" THEN "Gemini" ELSE "OpenAI"

\* the request was answered by one of the three steps that precede the call
RejectedBeforeCall ==
  \/ Replied(401, "Unauthorized")
  \/ Replied(400, "Missing text")
  \/ Replied(400, "Text too long")
  \/ Replied(500, "Server missing " \o CredentialName)

\* the system prompt and the user text an outbound call carries
InstructionsOf(call) ==
  IF call.provider = "Gemini" THEN call.payload.system_instruction.parts[1].text
  ELSE call.payload.instructions
SentText(call) ==
  IF call.provider = "Gemini"
  THEN call.payload.contents[Len(call.payload.contents)].parts[1].text
  ELSE call.payload.input

\* the provider answered (the fetch was not rejected, the body was awaited)
\* with a non-2xx status
UpstreamFailed ==
  /\ upstream.phase = "received"
  /\ upstream.status \notin 200..299

----------------------------------------------------------------------------
(* C1: a POST is answered 401 {error: "Unauthorized"} exactly when a       *)
(* non-empty secret is configured and the x-app-token header, both sides   *)
(* trimmed and compared case-sensitively, is absent or different; with an  *)
(* empty secret nothing is answered 401.  (A secret of white space only is *)
(* left open: the claim does not say on which side of "non-empty" it is.)  *)
(* Stated for both handlers, which variant B does not satisfy: it compares *)
(* the configured secret untrimmed.                                        *)
C1_Unauthorized ==
  IsPost /\ (Done \/ Suspended) =>
    /\ OrEmpty(AppToken) = <<>> => ~Replied(401, "Unauthorized")
    /\ ConfiguredSecret # <<>> =>
         (Replied(401, "Unauthorized") <=>
            \/ ~req.token.some
            \/ Trim(req.token.val) # ConfiguredSecret)

(* C2 as stated: every POST whose text is absent, empty or blank (a body   *)
(* that is not JSON included) is answered 400 "Missing text".              *)
C2_Original ==
  Done /\ IsPost /\ TrimmedText = <<>> => Replied(400, "Missing text")

(* C2 amended: every POST that the shared-secret check does not answer 401 *)
(* and whose text is absent, empty or blank is answered 400 "Missing text",*)
(* whatever lang, history and previous_response_id are, and no outbound    *)
(* call is made for it.                                                    *)
C2_MissingText ==
  /\ Done /\ IsPost /\ TrimmedText = <<>> /\ ~Replied(401, "Unauthorized")
       => Replied(400, "Missing text") /\ calls = <<>>
  /\ pc \in {"awaiting", "reading"} => TrimmedText # <<>>

C2_Witness ==
  /\ Done /\ IsPost /\ variant = "B"
  /\ AppToken = Some(Secret) /\ req.token = Some(Secret)
  /\ req.body.json
  /\ req.body.value.text = Some(<<"\t", "U+00A0", "\r">>)
  /\ req.body.value.lang = Some(LangIt)
  /\ req.body.value.previous_response_id = Some(<<"r", "1">>)
  /\ Replied(400, "Missing text")

(* C3 as stated: every POST whose trimmed text is longer than 1500         *)
(* characters is answered 400 "Text too long" and makes no outbound call.  *)
C3_Original ==
  Done /\ IsPost /\ Len(TrimmedText) > 1500
    => Replied(400, "Text too long") /\ calls = <<>>

(* C3 amended: every POST that the shared-secret check does not answer 401 *)
(* and whose trimmed text is longer than 1500 characters is answered 400   *)
(* "Text too long", no POST with such a text makes an outbound call, and   *)
(* the text of every outbound call is trimmed and 1 to 1500 characters long.*)
C3_TextTooLong ==
  /\ Done /\ IsPost /\ Len(TrimmedText) > 1500 /\ ~Replied(401, "Unauthorized")
       => Replied(400, "Text too long")
  /\ Len(TrimmedText) > 1500 => calls = <<>>
  /\ \A i \in 1..Len(calls) :
       /\ SentText(calls[i]) = TrimmedText
       /\ Len(SentText(calls[i])) \in 1..1500

C3_Witness ==
  /\ Done /\ IsPost /\ variant = "A"
  /\ AppToken = None
  /\ req.body.json
  /\ req.body.value.text = Some(<<" ">> \o LongText \o <<"a">>)
  /\ Replied(400, "Text too long")
  /\ calls = <<>>

\* C4's reading of "indicates Italian": after lower-casing and trimming the
\* value is "it" or contains "ital"
IndicatesItalian(lang) ==
  /\ lang.some
  /\ LET v == Trim(ToLowerCase(lang.val))
     IN v = <<"i", "t">> \/ Includes(v, <<"i", "t", "a", "l">>)

(* C4: in both handlers the system prompt of every outbound call names     *)
(* Italian ("Idioma alvo: Italiano.") when lang, case-insensitively and    *)
(* trimmed, indicates Italian, and Spanish for every other or absent lang. *)
(* Variant B does not satisfy it: it compares lang with "it" as given.     *)
C4_Language ==
  \A i \in 1..Len(calls) :
    InstructionsOf(calls[i])[2] =
      IF IndicatesItalian(ReqField("lang"))
      THEN "Idioma alvo: Italiano."
      ELSE "Idioma alvo: Espanhol (rioplatense neutro)."

(* C5: in both handlers every 200 answer to a POST carries a non-empty     *)
(* text; a 2xx provider answer without text is reported as an error, in    *)
(* variant A as 502 "Empty response" with a non-null response_id.          *)
(* Variant B does not satisfy it: it answers 200 with an empty text.       *)
C5_NoEmptySuccess ==
  Done /\ IsPost /\ Len(responses) = 1 =>
    /\ responses[1].status = 200 =>
         /\ "text" \in DOMAIN responses[1].body
         /\ responses[1].body.text # <<>>
    /\ Replied(502, "Empty response") => responses[1].body.response_id.some

(* C6: in both handlers a provider answer with a non-2xx status s is       *)
(* answered, without an exception, with the same status s and the body     *)
(* {error: "<Provider> error", status: s, details}, details being the      *)
(* provider's JSON body, or {} when that body is not JSON.  Status 304     *)
(* does not satisfy it: no response with a body can carry it.              *)
C6_PassThrough ==
  Done /\ UpstreamFailed =>
    /\ caught = <<>>
    /\ Len(responses) = 1
    /\ responses[1].status = upstream.status
    /\ responses[1].body =
         [error |-> ProviderName \o " error",
          status |-> upstream.status,
          details |-> IF upstream.body.some THEN upstream.body.val
                      ELSE IF variant = "A" THEN EmptyGemini ELSE EmptyOpenAI]

(* C7: when the provider credential of the deployed variant is absent or   *)
(* empty, a POST that passes the shared-secret check with a valid text (1  *)
(* to 1500 characters once trimmed) is answered 500 "Server missing        *)
(* <CREDENTIAL_NAME>", no exception is involved (this is not the "Server   *)
(* error" answer), and no outbound call is made, then or before.  Such a   *)
(* POST always comes to read the credential, and the credential is the one *)
(* it reads then.                                                          *)
C7_MissingCredential ==
  /\ Done /\ IsPost /\ Len(TrimmedText) \in 1..1500
          /\ ~Replied(401, "Unauthorized")
       => Credential.read
  /\ pc \in {"awaiting", "reading"} => Credential.read
  /\ Credential.read =>
       /\ IsPost /\ Len(TrimmedText) \in 1..1500
       /\ ~Replied(401, "Unauthorized")
  /\ Credential.read /\ OrEmpty(Credential.val) = <<>> =>
       /\ Done
       /\ Replied(500, "Server missing " \o CredentialName)
       /\ DOMAIN responses[1].body = {"error"}
       /\ caught = <<>>
       /\ calls = <<>>
       /\ upstream = Pending

C7_Witness ==
  /\ Done /\ IsPost /\ variant = "B"
  /\ AppToken = Some(Secret) /\ req.token = Some(Secret)
  /\ env.OPENAI_API_KEY = Read(Some(<<>>))
  /\ ReqField("text") = Some(<<"h", "i">>)
  /\ Replied(500, "Server missing OPENAI_API_KEY")
  /\ calls = <<>>

(* C8: a request causes at most one outbound call and a failed call is not *)
(* retried; a POST makes exactly one call when it passes the shared-secret *)
(* check, the text validation and the credential check, and none when one  *)
(* of the three rejects it; OPTIONS makes none.                            *)
C8_AtMostOneCall ==
  /\ Len(calls) <= 1
  /\ pc \in {"idle", "parsing"} => calls = <<>>
  /\ pc = "awaiting" => IsPost /\ Len(calls) = 1 /\ upstream = Pending
  /\ pc = "reading" => IsPost /\ Len(calls) = 1 /\ upstream.phase = "resolved"
  /\ Done /\ ~IsPost => calls = <<>>
  /\ Done /\ IsPost => (calls = <<>> <=> RejectedBeforeCall)
  /\ Done /\ IsPost =>
       (Len(calls) = 1 <=> upstream.phase \in {"rejected", "received"})
  /\ IsPost /\ (TrimmedText = <<>> \/ Len(TrimmedText) > 1500) => calls = <<>>

C8_Witness ==
  /\ Done /\ IsPost
  /\ Len(calls) = 1
  /\ upstream = Rejected

(* C9: every POST ends with exactly one JSON response and no exception     *)
(* leaves the handler: an exception raised on the way (a rejected fetch, a *)
(* response that cannot be constructed) is answered 500 {error: "Server    *)
(* error", details}; the status is 200, 400, 401, 500, 502 (variant A) or  *)
(* the provider's status; and a request that has not been answered yet can *)
(* always take its next step.                                              *)
C9_AlwaysOneResponse ==
  /\ ~escaped
  /\ Len(responses) = IF Done THEN 1 ELSE 0
  /\ Len(caught) <= 1
  /\ caught # <<>> =>
       /\ Done /\ Replied(500, "Server error")
       /\ responses[1].body = [error |-> "Server error", details |-> caught[1]]
  /\ Done /\ IsPost =>
       \/ responses[1].status \in {200, 400, 401, 500}
       \/ responses[1].status = 502 /\ variant = "A"
       \/ UpstreamFailed /\ responses[1].status = upstream.status
  /\ pc = "parsing" => ENABLED (BodyParsed_A \/ BodyParsed_B)
  /\ pc = "awaiting" => ENABLED (FetchSettles_A \/ FetchSettles_B)
  /\ pc = "reading" => ENABLED (BodyRead_A \/ BodyRead_B)

C9_Witness ==
  /\ Done /\ IsPost
  /\ upstream = Rejected
  /\ caught = <<"fetch failed">>
  /\ Replied(500, "Server error")

----------------------------------------------------------------------------
(* buildContents (variant A), checked on its own under SpecContents.       *)

HistoryGiven == fnArgs.history.some /\ fnArgs.history.val.array
GivenItems == IF HistoryGiven THEN fnArgs.history.val.items ELSE <<>>

\* the history items whose text is not empty once trimmed
HasText(m) == m.text.some /\ Trim(m.text.val) # <<>>
KeptItems == SelectSeq(GivenItems, HasText)

ExpectedRole(m) ==
  IF m.role \in {Some("assistant"), Some("model")} THEN "model" ELSE "user"

LastEntryIsUserText ==
  /\ Len(fnResult) >= 1
  /\ fnResult[Len(fnResult)] =
       [role |-> "user", parts |-> << [text |-> fnArgs.userText] >>]

(* C10 as stated: the contents list holds one entry per history item, in   *)
(* order and with the role mapped ("assistant" and "model" to "model",     *)
(* anything else to "user"), plus one final "user" entry with the current  *)
(* text; an absent or non-array history yields that final entry alone.     *)
C10_Original ==
  pc = "result" =>
    /\ Len(fnResult) = Len(GivenItems) + 1
    /\ \A i \in 1..Len(GivenItems) : fnResult[i].role = ExpectedRole(GivenItems[i])
    /\ LastEntryIsUserText

(* C10 amended: the contents list holds one entry per history item whose   *)
(* text is non-empty once trimmed (items whose text is absent, empty or    *)
(* blank are skipped), in order, carrying the trimmed text and the mapped  *)
(* role, plus one final "user" entry with the current text; an absent or   *)
(* non-array history yields that final entry alone.                        *)
C10_Contents ==
  pc = "result" =>
    /\ Len(fnResult) = Len(KeptItems) + 1
    /\ \A i \in 1..Len(KeptItems) :
         fnResult[i] = [role |-> ExpectedRole(KeptItems[i]),
                        parts |-> << [text |-> Trim(KeptItems[i].text.val)] >>]
    /\ LastEntryIsUserText
    /\ ~HistoryGiven => Len(fnResult) = 1

C10_Witness ==
  /\ pc = "result"
  /\ HistoryGiven
  /\ Len(GivenItems) = 2
  /\ GivenItems[1] = [role |-> Some("model"), text |-> Some(<<"\t", "y", "o", " ">>)]
  /\ GivenItems[2].text = Some(<<"\t">>)
  /\ Len(fnResult) = 2
  /\ fnResult[1].role = "model"

====
